---- MODULE Spec2Model ----
(***************************************************************************)
(* Retrieval and composition core of main.py: _score, _select_teachings    *)
(* and generate_reply over the fixed TEACHINGS table.                      *)
(*                                                                         *)
(* Python strings are TLA+ strings; Len, \o and SubSeq act on them as on   *)
(* sequences of characters.  The four non-ASCII characters of the reply    *)
(* templates are written with ASCII stand-ins (Bullet, EmDash, LeftQuote,  *)
(* RightQuote) because module text is ASCII.                               *)
(***************************************************************************)
EXTENDS Integers, Sequences, FiniteSets, TLC

VARIABLES teachings, frame

vars == <<teachings, frame>>

(***************************************************************************)
(* Bounds of the model.                                                    *)
(***************************************************************************)
\* longest prompt, in vocabulary words
MaxWords == 2
\* largest limit passed to _select_teachings (the table has 6 entries)
MaxLimit == 7
\* limits range from -NegLimit
NegLimit == 1
\* number of concurrent callers
NumCallers == 2

(***************************************************************************)
(* The corpus.                                                             *)
(***************************************************************************)
TEACHINGS ==
  <<
     [source |-> "Bhagavad Gita 2.47",
      tags   |-> "krishna arjuna gita duty karma yoga dharma action",
      text   |-> "You have the right to work, but never to the fruit of work. Let not the fruits of action be your motive, nor let your attachment be to inaction."],
     [source |-> "Bhagavad Gita 4.7-8",
      tags   |-> "krishna gita avatar dharma protection righteousness",
      text   |-> "Whenever there is decline in righteousness and rise of unrighteousness, then I manifest Myself. For the protection of the good and the destruction of the wicked, for the establishment of dharma, I appear age after age."],
     [source |-> "Dhammapada 1:1-2",
      tags   |-> "buddha dhammapada mind intention suffering happiness",
      text   |-> "Mind precedes all phenomena; mind matters most. If with an impure mind one speaks or acts, suffering follows like the wheel the foot of the ox. If with a pure mind one speaks or acts, happiness follows like a shadow that never departs."],
     [source |-> "Dhammapada 160",
      tags   |-> "buddha dhammapada self effort discipline refuge",
      text   |-> "By oneself is evil done; by oneself is one defiled. By oneself is evil left undone; by oneself is one purified. Purity and impurity depend on oneself; no one can purify another."],
     [source |-> "Acharanga Sutra (Jain)",
      tags   |-> "mahavira jain ahimsa nonviolence restraint compassion",
      text   |-> "All breathing, existing, living, sentient creatures should not be slain, nor treated with violence, nor abused, nor tormented, nor driven away."],
     [source |-> "Uttaradhyayana Sutra (Jain)",
      tags   |-> "mahavira jain truth discipline conduct karma",
      text   |-> "A man is not called wise because he talks and talks again; but if he is peaceful, loving, and fearless then he is in truth called wise."]
  >>

(***************************************************************************)
(* Python string primitives.                                               *)
(***************************************************************************)
Char(s, i) == SubSeq(s, i, i)

\* the ASCII characters str.split() and str.strip() treat as whitespace
Whitespace == {" ", "\t", "\n", "\r", "\f"}

UpperLetters == "ABCDEFGHIJKLMNOPQRSTUVWXYZ"

LowerLetters == "abcdefghijklmnopqrstuvwxyz"

LowerOf == [c \in {Char(UpperLetters, i) : i \in 1..26} |->
              Char(LowerLetters, CHOOSE i \in 1..26 : Char(UpperLetters, i) = c)]

\* str.lower(): every character mapped on its own, the others kept
RECURSIVE lower(_)
lower(s) ==
  IF Len(s) = 0 THEN ""
  ELSE IF Len(s) = 1 THEN (IF s \in DOMAIN LowerOf THEN LowerOf[s] ELSE s)
  ELSE LET h == Len(s) \div 2
       IN  lower(SubSeq(s, 1, h)) \o lower(SubSeq(s, h + 1, Len(s)))

\* the Python test `sub in s` on strings
Contains(sub, s) ==
  \E i \in 1..(Len(s) - Len(sub) + 1) : SubSeq(s, i, i + Len(sub) - 1) = sub

\* str.split() without arguments: the maximal runs of non-whitespace
RECURSIVE SplitFrom(_, _, _, _)
SplitFrom(s, i, cur, acc) ==
  IF i > Len(s) THEN (IF cur = "" THEN acc ELSE Append(acc, cur))
  ELSE IF Char(s, i) \in Whitespace
       THEN SplitFrom(s, i + 1, "", IF cur = "" THEN acc ELSE Append(acc, cur))
       ELSE SplitFrom(s, i + 1, cur \o Char(s, i), acc)

split(s) == SplitFrom(s, 1, "", <<>>)

RECURSIVE lstrip(_)
lstrip(s) ==
  IF Len(s) > 0 /\ Char(s, 1) \in Whitespace THEN lstrip(SubSeq(s, 2, Len(s))) ELSE s

RECURSIVE rstrip(_)
rstrip(s) ==
  IF Len(s) > 0 /\ Char(s, Len(s)) \in Whitespace
  THEN rstrip(SubSeq(s, 1, Len(s) - 1)) ELSE s

\* str.strip()
strip(s) == rstrip(lstrip(s))

\* sep.join(lines)
RECURSIVE join(_, _)
join(sep, lines) ==
  IF Len(lines) = 0 THEN ""
  ELSE IF Len(lines) = 1 THEN lines[1]
  ELSE lines[1] \o sep \o join(sep, Tail(lines))

\* the list slice xs[:n], negative n counted from the end
Slice(xs, n) ==
  IF n >= 0 THEN SubSeq(xs, 1, IF n < Len(xs) THEN n ELSE Len(xs))
  ELSE SubSeq(xs, 1, Len(xs) + n)

(***************************************************************************)
(* _score                                                                  *)
(***************************************************************************)
\* for token in teaching["tags"].split(): if token in ql: score += 2
RECURSIVE TagLoop(_, _, _)
TagLoop(tokens, ql, score) ==
  IF tokens = <<>> THEN score
  ELSE TagLoop(Tail(tokens), ql,
               IF Contains(Head(tokens), ql) THEN score + 2 ELSE score)

\* the word loop with the length test moved by one: len(word) >= 4
RECURSIVE WordLoopFromFour(_, _, _)
WordLoopFromFour(words, text, score) ==
  IF words = <<>> THEN score
  ELSE WordLoopFromFour(Tail(words), text,
                        IF Len(Head(words)) >= 4 /\ Contains(Head(words), lower(text))
                        THEN score + 1 ELSE score)

\* for word in ql.split(): if len(word) > 4 and word in text.lower(): score += 1
RECURSIVE WordLoop(_, _, _)
WordLoop(words, text, score) ==
  IF words = <<>> THEN score
  ELSE WordLoop(Tail(words), text,
                IF Len(Head(words)) > 4 /\ Contains(Head(words), lower(text))
                THEN score + 1 ELSE score)

_score(teaching, q) ==
  LET ql == lower(q)
  IN  WordLoop(split(ql), teaching.text, TagLoop(split(teaching.tags), ql, 0))

(***************************************************************************)
(* Inputs.                                                                 *)
(***************************************************************************)
Vocabulary == {"Krishna", "karma?", "oneself", "truth", "mind", "work,"}

Separators == {" ", "\n"}

KrishnaQuery == "What does Krishna teach about duty and karma?"

WordSeqs == UNION {[1..n -> Vocabulary] : n \in 0..MaxWords}

\* prompts of up to MaxWords words, the short ones also with whitespace
\* around them, and two fixed ones
Prompts ==
  {join(sep, ws) : sep \in Separators, ws \in WordSeqs}
  \cup {" " \o join(" ", ws) \o " \n" : ws \in {w \in WordSeqs : Len(w) <= 1}}
  \cup {KrishnaQuery, "Hello"}

Limits == (0 - NegLimit)..MaxLimit

\* the four tones of ChatRequest and two values outside them
Tones == {"neutral", "poetic", "scientific", "traditional", "", "Poetic"}

\* the inputs of the concurrent callers
ConcPrompts == {"karma? truth", " mind \n"}

ConcLimits == {1, MaxLimit}

ConcTones == {"poetic", "neutral"}

\* every string _score is handed in the model: the prompts as they are
\* (_select_teachings called directly) and stripped (through generate_reply)
Queries ==
  LET P == Prompts \cup ConcPrompts IN P \cup {strip(p) : p \in P}

\* _score is a pure function: its values on the model's inputs, computed once
ScoreMemo ==
  [q \in Queries |-> [i \in 1..Len(TEACHINGS) |-> _score(TEACHINGS[i], q)]]

\* a call _score(t, q), answered from ScoreMemo where it holds the value
Score(t, q) ==
  IF q \in Queries /\ \E i \in 1..Len(TEACHINGS) : TEACHINGS[i] = t
  THEN ScoreMemo[q][CHOOSE i \in 1..Len(TEACHINGS) : TEACHINGS[i] = t]
  ELSE _score(t, q)

(***************************************************************************)
(* _select_teachings                                                       *)
(***************************************************************************)
\* the order of sorted(...)[::-1]: equal keys end up in reverse order
InsertByKeyTiesReversed(acc, i, key) ==
  LET n == Cardinality({j \in 1..Len(acc) : key[acc[j]] > key[i]})
  IN  SubSeq(acc, 1, n) \o <<i>> \o SubSeq(acc, n + 1, Len(acc))

\* where sorted(..., reverse=True) puts the i-th element among the elements
\* before it: behind every one whose key is not smaller (equal keys keep
\* their order)
InsertByKey(acc, i, key) ==
  LET n == Cardinality({j \in 1..Len(acc) : key[acc[j]] >= key[i]})
  IN  SubSeq(acc, 1, n) \o <<i>> \o SubSeq(acc, n + 1, Len(acc))

RECURSIVE SortOrder(_, _)
SortOrder(n, key) ==
  IF n = 0 THEN <<>> ELSE InsertByKey(SortOrder(n - 1, key), n, key)

\* the key sorted() computes once for every element
ScoreKeys(table, prompt) == [i \in 1..Len(table) |-> Score(table[i], prompt)]

\* ranked = sorted(TEACHINGS, key=lambda t: _score(t, prompt), reverse=True)
sorted(table, key) ==
  LET order == SortOrder(Len(table), key)
  IN  [k \in 1..Len(table) |-> table[order[k]]]

\* TEACHINGS.sort(...) in place of sorted(TEACHINGS, ...)
TableSortedInPlace(table, key) == sorted(table, key)

\* sorted() builds a new list: the table it is given stays as it is
TableAfterSorted(table, key) == table

\* ranked[:limit - 1]
TopSliceShort(ranked, limit) == Slice(ranked, limit - 1)

\* ranked[:limit]
TopSlice(ranked, limit) == Slice(ranked, limit)

\* [t for t in ranked[:limit] if _score(t, prompt) > 0]
KeepPositive(ts, prompt) == SelectSeq(ts, LAMBDA t : Score(t, prompt) > 0)

\* if not result:
NeedsFallbackIfEmpty(result, limit) == Len(result) = 0

\* if len(result) < limit:
NeedsFallback(result, limit) == Len(result) < limit

\* if not result or result[-1] != t: only the last entry is compared
NotInLastOnly(t, result) == Len(result) = 0 \/ result[Len(result)] # t

\* if t not in result:
NotIn(t, result) == \A k \in 1..Len(result) : result[k] # t

\* if len(result) >= limit: break
LoopBreaks(result, limit) == Len(result) >= limit

\* result.insert(0, t) in place of result.append(t)
FillBodyPrepend(result, t) == IF NotIn(t, result) THEN <<t>> \o result ELSE result

\* one pass of the body of `for t in TEACHINGS`
FillBody(result, t) == IF NotIn(t, result) THEN Append(result, t) ELSE result

\* return result[:limit]
Truncate(result, limit) == Slice(result, limit)

\* the loop of lines 82-86 from entry idx on
RECURSIVE FillFrom(_, _, _, _)
FillFrom(table, idx, result, limit) ==
  IF idx > Len(table) THEN result
  ELSE LET r == FillBody(result, table[idx])
       IN  IF LoopBreaks(r, limit) THEN r ELSE FillFrom(table, idx + 1, r, limit)

\* one whole call of _select_teachings on a table nobody else touches
_select_teachings(prompt, limit) ==
  LET ranked == sorted(TEACHINGS, ScoreKeys(TEACHINGS, prompt))
      result == KeepPositive(TopSlice(ranked, limit), prompt)
  IN  Truncate(IF NeedsFallback(result, limit)
               THEN FillFrom(TEACHINGS, 1, result, limit)
               ELSE result, limit)

(***************************************************************************)
(* generate_reply                                                          *)
(***************************************************************************)
\* stand-in for U+2022
Bullet == "*"
\* stand-in for U+2014
EmDash == "~"
\* stand-in for U+2018
LeftQuote == "<"
\* stand-in for U+2019
RightQuote == ">"

\* the poetic bullet written in the layout of the other tones
PoeticLinesSourceFirst(q, picks) ==
  << "You ask beneath the banyan: " \o LeftQuote \o q \o RightQuote \o ".",
     "Listen " \o EmDash \o " tradition hums like a veena across ages:" >>
  \o [i \in 1..Len(picks) |->
        Bullet \o " " \o picks[i].source \o ": " \o picks[i].text]
  \o << "Between breath and breath, carry compassion and clarity.",
        "Walk as a flame that warms but does not burn." >>

PoeticLines(q, picks) ==
  << "You ask beneath the banyan: " \o LeftQuote \o q \o RightQuote \o ".",
     "Listen " \o EmDash \o " tradition hums like a veena across ages:" >>
  \o [i \in 1..Len(picks) |->
        Bullet \o " " \o picks[i].text \o " " \o EmDash \o " " \o picks[i].source]
  \o << "Between breath and breath, carry compassion and clarity.",
        "Walk as a flame that warms but does not burn." >>

ScientificLines(q, picks) ==
  << "Question: " \o q,
     "Contextual retrieval: selected teachings based on lexical overlap and tags." >>
  \o [i \in 1..Len(picks) |->
        ToString(i) \o ". " \o picks[i].source \o ": " \o picks[i].text]
  \o << "Synthesis: Across Hindu, Buddhist, and Jain sources, action aligned with duty, disciplined mind, and non-violence emerge as convergent principles." >>

TraditionalLines(q, picks) ==
  << "You inquire: " \o q, "Hear what elders preserve:" >>
  \o [i \in 1..Len(picks) |->
        Bullet \o " " \o picks[i].source \o ": " \o picks[i].text]
  \o << "Take what is good, test by conduct, and proceed with humility." >>

NeutralLines(q, picks) ==
  << "You asked: " \o q, "Relevant teachings:" >>
  \o [i \in 1..Len(picks) |->
        Bullet \o " " \o picks[i].source \o ": " \o picks[i].text]
  \o << "In practice: clarify intent, choose the kindest sufficient action, and learn from outcomes." >>

\* the chain with the scientific branch behind a misspelt literal
ToneLinesMisspelt(q, tone, picks) ==
  IF tone = "poetic" THEN PoeticLines(q, picks)
  ELSE IF tone = "scientfic" THEN ScientificLines(q, picks)
  ELSE IF tone = "traditional" THEN TraditionalLines(q, picks)
  ELSE NeutralLines(q, picks)

\* the chain with the neutral layout kept for tone == "neutral" only
ToneLinesNeutralByName(q, tone, picks) ==
  IF tone = "poetic" THEN PoeticLines(q, picks)
  ELSE IF tone = "scientific" THEN ScientificLines(q, picks)
  ELSE IF tone = "neutral" THEN NeutralLines(q, picks)
  ELSE TraditionalLines(q, picks)

\* the chain of `if tone == ...` tests of generate_reply
ToneLines(q, tone, picks) ==
  IF tone = "poetic" THEN PoeticLines(q, picks)
  ELSE IF tone = "scientific" THEN ScientificLines(q, picks)
  ELSE IF tone = "traditional" THEN TraditionalLines(q, picks)
  ELSE NeutralLines(q, picks)

\* the text generate_reply builds from the picks it was handed
compose(q, tone, picks) == join("\n", ToneLines(q, tone, picks))

\* one whole call of generate_reply on a table nobody else touches
generate_reply(prompt, tone) ==
  LET q == strip(prompt)
  IN  compose(q, tone, _select_teachings(q, 2))

Callers == 1..NumCallers

(***************************************************************************)
(* State: the shared table and every caller's call frame.                  *)
(***************************************************************************)
IdleFrame ==
  [pc |-> "idle", fn |-> "none", prompt |-> "", tone |-> "", limit |-> 0,
   q |-> "", keys |-> <<>>, ranked |-> <<>>, result |-> <<>>, idx |-> 0,
   picks |-> <<>>, reply |-> ""]

Init ==
  /\ teachings = TEACHINGS
  /\ frame = [c \in Callers |-> IdleFrame]

CanCall(c) == frame[c].pc = "idle"

\* a caller enters _select_teachings(prompt, limit)
CallSelect(c, P, L) ==
  /\ CanCall(c)
  /\ \E prompt \in P, limit \in L :
       frame' = [frame EXCEPT ![c] =
                   [IdleFrame EXCEPT !.pc = "rank", !.fn = "select",
                                     !.prompt = prompt, !.q = prompt,
                                     !.limit = limit]]
  /\ UNCHANGED teachings

\* a caller enters generate_reply(prompt, tone): q = prompt.strip() and the
\* call _select_teachings(q, limit=2)
CallGenerate(c, P, T) ==
  /\ CanCall(c)
  /\ \E prompt \in P, tone \in T :
       frame' = [frame EXCEPT ![c] =
                   [IdleFrame EXCEPT !.pc = "rank", !.fn = "generate",
                                     !.prompt = prompt, !.tone = tone,
                                     !.q = strip(prompt), !.limit = 2]]
  /\ UNCHANGED teachings

\* ranked = sorted(TEACHINGS, key=..., reverse=True)
Rank(c) ==
  /\ frame[c].pc = "rank"
  /\ LET key == ScoreKeys(teachings, frame[c].q)
     IN  /\ frame' = [frame EXCEPT ![c].keys = key,
                                   ![c].ranked = sorted(teachings, key),
                                   ![c].pc = "filter"]
         /\ teachings' = TableAfterSorted(teachings, key)

\* result = [t for t in ranked[:limit] if _score(t, prompt) > 0]
\* if len(result) < limit:
Filter(c) ==
  /\ frame[c].pc = "filter"
  /\ LET result == KeepPositive(TopSlice(frame[c].ranked, frame[c].limit), frame[c].q)
     IN  frame' = [frame EXCEPT ![c].result = result,
                                ![c].idx = 1,
                                ![c].pc = IF NeedsFallback(result, frame[c].limit)
                                          THEN "fill" ELSE "ret"]
  /\ UNCHANGED teachings

\* one pass of `for t in TEACHINGS`
FillStep(c) ==
  /\ frame[c].pc = "fill"
  /\ frame[c].idx <= Len(teachings)
  /\ LET result == FillBody(frame[c].result, teachings[frame[c].idx])
     IN  frame' = [frame EXCEPT ![c].result = result,
                                ![c].idx = @ + 1,
                                ![c].pc = IF LoopBreaks(result, frame[c].limit)
                                          THEN "ret" ELSE "fill"]
  /\ UNCHANGED teachings

\* the loop ran through the whole table
FillEnd(c) ==
  /\ frame[c].pc = "fill"
  /\ frame[c].idx > Len(teachings)
  /\ frame' = [frame EXCEPT ![c].pc = "ret"]
  /\ UNCHANGED teachings

\* return result[:limit]; the locals of _select_teachings end with the call
Return(c) ==
  /\ frame[c].pc = "ret"
  /\ frame' = [frame EXCEPT ![c].picks = Truncate(frame[c].result, frame[c].limit),
                            ![c].keys = <<>>, ![c].ranked = <<>>,
                            ![c].result = <<>>, ![c].idx = 0,
                            ![c].pc = IF frame[c].fn = "generate"
                                      THEN "compose" ELSE "done"]
  /\ UNCHANGED teachings

\* the tone branch of generate_reply and its return "\n".join(lines)
Compose(c) ==
  /\ frame[c].pc = "compose"
  /\ frame' = [frame EXCEPT ![c].reply = compose(frame[c].q, frame[c].tone, frame[c].picks),
                            ![c].pc = "done"]
  /\ UNCHANGED teachings

\* the caller has taken the returned value: the frame is gone
Collect(c) ==
  /\ frame[c].pc = "done"
  /\ frame' = [frame EXCEPT ![c] = IdleFrame]
  /\ UNCHANGED teachings

Step(c) ==
  \/ Rank(c)
  \/ Filter(c)
  \/ FillStep(c)
  \/ FillEnd(c)
  \/ Return(c)
  \/ Compose(c)
  \/ Collect(c)

\* one caller, the whole input space
Next ==
  \/ CallSelect(1, Prompts, Limits)
  \/ CallGenerate(1, Prompts, Tones)
  \/ Step(1)

Spec == Init /\ [][Next]_vars

\* every caller, interleaved at each step
NextConc ==
  \E c \in Callers :
    \/ CallSelect(c, ConcPrompts, ConcLimits)
    \/ CallGenerate(c, ConcPrompts, ConcTones)
    \/ Step(c)

SpecConc == Init /\ [][NextConc]_vars

(***************************************************************************)
(* Properties.                                                             *)
(***************************************************************************)
\* _select_teachings has returned to caller c: picks holds what it returned
Returned(c) == frame[c].pc \in {"compose", "done"}

\* generate_reply has returned to caller c: reply holds what it returned
Replied(c) == frame[c].pc = "done" /\ frame[c].fn = "generate"

Min(a, b) == IF a < b THEN a ELSE b

Elems(xs) == {xs[k] : k \in 1..Len(xs)}

\* the place of an entry in the corpus, by its source
PosOf(t) == CHOOSE i \in 1..Len(TEACHINGS) : TEACHINGS[i].source = t.source

StartsWith(s, prefix) ==
  Len(s) >= Len(prefix) /\ SubSeq(s, 1, Len(prefix)) = prefix

\* the lines of s: the pieces of s between its newline characters
LinesOf(s) ==
  LET nl == {i \in 1..Len(s) : Char(s, i) = "\n"}
      n == Cardinality(nl)
      pos(k) == CHOOSE i \in nl : Cardinality({j \in nl : j < i}) = k - 1
      first(k) == IF k = 1 THEN 1 ELSE pos(k - 1) + 1
      last(k) == IF k = n + 1 THEN Len(s) ELSE pos(k) - 1
  IN  [k \in 1..(n + 1) |-> SubSeq(s, first(k), last(k))]

\* C1: for every prompt and every limit >= 0, _select_teachings returns
\* exactly min(limit, size of the corpus) entries.
C1_LengthIsMin ==
  \A c \in Callers :
    (Returned(c) /\ frame[c].limit >= 0)
      => Len(frame[c].picks) = Min(frame[c].limit, Len(TEACHINGS))

\* a call with limit 3 returned one scored entry followed by fallback entries
C1_Witness ==
  \E c \in Callers :
    /\ Returned(c) /\ frame[c].limit = 3 /\ Len(frame[c].picks) = 3
    /\ Score(frame[c].picks[1], frame[c].q) > 0
    /\ Score(frame[c].picks[2], frame[c].q) = 0

\* C2: the list _select_teachings returns holds no two entries with the same
\* source.
C2_NoDuplicateSource ==
  \A c \in Callers :
    Returned(c) =>
      \A i, j \in 1..Len(frame[c].picks) :
        i # j => frame[c].picks[i].source # frame[c].picks[j].source

\* the fallback passed over the first corpus entry, already kept for its
\* score, and added the second
C2_Witness ==
  \E c \in Callers :
    /\ Returned(c) /\ Len(frame[c].picks) >= 2
    /\ frame[c].picks[1] = TEACHINGS[1]
    /\ Score(TEACHINGS[1], frame[c].q) > 0
    /\ frame[c].picks[2] = TEACHINGS[2]
    /\ Score(TEACHINGS[2], frame[c].q) = 0

\* C3: the returned list is in non-increasing order of _score, entries of
\* equal score in corpus order, fallback entries included.
C3_RankedStable ==
  \A c \in Callers :
    Returned(c) =>
      \A i, j \in 1..Len(frame[c].picks) :
        i < j =>
          LET si == Score(frame[c].picks[i], frame[c].q)
              sj == Score(frame[c].picks[j], frame[c].q)
          IN  /\ si >= sj
              /\ si = sj => PosOf(frame[c].picks[i]) < PosOf(frame[c].picks[j])

\* three returned entries, the last two with the same positive score
C3_Witness ==
  \E c \in Callers :
    /\ Returned(c) /\ Len(frame[c].picks) >= 3
    /\ Score(frame[c].picks[1], frame[c].q) > Score(frame[c].picks[2], frame[c].q)
    /\ Score(frame[c].picks[2], frame[c].q) = Score(frame[c].picks[3], frame[c].q)
    /\ Score(frame[c].picks[3], frame[c].q) > 0

AllZero(q) == \A i \in 1..Len(TEACHINGS) : Score(TEACHINGS[i], q) = 0

\* C4: when every entry scores 0 and limit >= 1, the result is the first
\* min(limit, size of the corpus) entries of the corpus in corpus order.
C4_AllZeroGivesCorpusPrefix ==
  \A c \in Callers :
    (Returned(c) /\ frame[c].limit >= 1 /\ AllZero(frame[c].q))
      => frame[c].picks = SubSeq(TEACHINGS, 1, Min(frame[c].limit, Len(TEACHINGS)))

\* the empty prompt with limit 2 returned two entries
C4_Witness ==
  \E c \in Callers :
    /\ Returned(c) /\ frame[c].q = "" /\ frame[c].limit = 2
    /\ Len(frame[c].picks) = 2

\* the maximal runs of non-whitespace of s, as pairs of positions
Runs(s) ==
  {r \in (1..Len(s)) \X (1..Len(s)) :
     /\ r[1] <= r[2]
     /\ (r[1] = 1 \/ Char(s, r[1] - 1) \in Whitespace)
     /\ (r[2] = Len(s) \/ Char(s, r[2] + 1) \in Whitespace)
     /\ \A k \in r[1]..r[2] : Char(s, k) \notin Whitespace}

TagRuns == [i \in 1..Len(TEACHINGS) |-> Runs(TEACHINGS[i].tags)]

LowerText == [i \in 1..Len(TEACHINGS) |-> lower(TEACHINGS[i].text)]

\* 2 for every tag found in the lowercased query, 1 for every word of it
\* longer than 4 characters found in the lowercased text
ScoreAsSpecified ==
  [q \in Queries |->
     LET ql == lower(q)
         words == Runs(ql)
     IN  [i \in 1..Len(TEACHINGS) |->
            2 * Cardinality({r \in TagRuns[i] :
                               Contains(SubSeq(TEACHINGS[i].tags, r[1], r[2]), ql)})
            + Cardinality({r \in words :
                             /\ r[2] - r[1] + 1 > 4
                             /\ Contains(SubSeq(ql, r[1], r[2]), LowerText[i])})]]

\* C5: _score is 2 times the number of the entry's tags occurring in the
\* lowercased query plus the number of words of the lowercased query, each
\* occurrence counted, that are longer than 4 characters and occur in the
\* lowercased text; it is never negative.
C5_ScoreFormula ==
  \A c \in Callers :
    frame[c].pc = "filter" =>
      \A i \in 1..Len(teachings) :
        /\ frame[c].keys[i] \in Nat
        /\ frame[c].keys[i] = ScoreAsSpecified[frame[c].q][PosOf(teachings[i])]

\* an entry scored 4: one tag and the same word twice
C5_Witness ==
  \E c \in Callers :
    /\ frame[c].pc = "filter"
    /\ frame[c].q = "truth truth"
    /\ frame[c].keys[6] = 4

\* C6: for the Krishna query with limit 2 the first entry returned is
\* Bhagavad Gita 2.47, and the scientific reply begins with "Question: "
\* followed by the query.
C6_KrishnaScenario ==
  \A c \in Callers :
    /\ (Returned(c) /\ frame[c].q = KrishnaQuery /\ frame[c].limit = 2)
         => /\ Len(frame[c].picks) >= 1
            /\ frame[c].picks[1].source = "Bhagavad Gita 2.47"
    /\ (Replied(c) /\ frame[c].prompt = KrishnaQuery /\ frame[c].tone = "scientific")
         => StartsWith(frame[c].reply,
                       "Question: What does Krishna teach about duty and karma?")

\* generate_reply has answered the Krishna query in the scientific tone
C6_Witness ==
  \E c \in Callers :
    /\ Replied(c) /\ frame[c].prompt = KrishnaQuery /\ frame[c].tone = "scientific"
    /\ Len(frame[c].picks) = 2

SingleLine(q) == ~ Contains("\n", q)

PoeticOpening(q) == "You ask beneath the banyan: " \o LeftQuote \o q \o RightQuote \o "."

PoeticBullet(t) == Bullet \o " " \o t.text \o " " \o EmDash \o " " \o t.source

PoeticClosing ==
  << "Between breath and breath, carry compassion and clarity.",
     "Walk as a flame that warms but does not burn." >>

\* C7 as claimed: the poetic reply is the opening line with the query, one
\* bullet line per pick, two closing lines, and no other line.
C7_PoeticAsClaimed ==
  \A c \in Callers :
    (Replied(c) /\ frame[c].tone = "poetic" /\ SingleLine(frame[c].q)) =>
      LinesOf(frame[c].reply) =
        <<PoeticOpening(frame[c].q)>>
        \o [i \in 1..Len(frame[c].picks) |-> PoeticBullet(frame[c].picks[i])]
        \o PoeticClosing

\* C7 amended: the poetic reply is the opening line with the query, one
\* fixed introductory line, one bullet line per pick in pick order, two
\* closing lines, and no other line.
C7_PoeticLayout ==
  \A c \in Callers :
    (Replied(c) /\ frame[c].tone = "poetic" /\ SingleLine(frame[c].q)) =>
      LinesOf(frame[c].reply) =
        << PoeticOpening(frame[c].q),
           "Listen " \o EmDash \o " tradition hums like a veena across ages:" >>
        \o [i \in 1..Len(frame[c].picks) |-> PoeticBullet(frame[c].picks[i])]
        \o PoeticClosing

\* a poetic reply to a one-line query of two words, with two picks
C7_Witness ==
  \E c \in Callers :
    /\ Replied(c) /\ frame[c].tone = "poetic"
    /\ frame[c].q = "Krishna karma?"
    /\ Len(frame[c].picks) = 2
    /\ Len(LinesOf(frame[c].reply)) = 6

\* C8: for a tone other than poetic, scientific and traditional the reply is
\* the reply to the same prompt in the neutral tone.
C8_UnknownToneIsNeutral ==
  \A c \in Callers :
    (Replied(c) /\ frame[c].tone \notin {"poetic", "scientific", "traditional"})
      => frame[c].reply = generate_reply(frame[c].prompt, "neutral")

\* a reply for a tone outside the enumeration
C8_Witness ==
  \E c \in Callers :
    /\ Replied(c) /\ frame[c].tone = "Poetic"
    /\ StartsWith(frame[c].reply, "You asked: ")

\* C9: whatever the callers do and however their steps interleave, the
\* shared table keeps its initial value and every call returns what the
\* same call returns when it runs alone.
C9_TableKeptResultsAlone ==
  /\ teachings = TEACHINGS
  /\ \A c \in Callers :
       /\ Returned(c) => frame[c].picks = _select_teachings(frame[c].q, frame[c].limit)
       /\ Replied(c) => frame[c].reply = generate_reply(frame[c].prompt, frame[c].tone)

\* one caller has its result while another, with another query, is inside
\* the fallback loop
C9_Witness ==
  \E c, d \in Callers :
    /\ c # d
    /\ frame[c].pc = "done"
    /\ frame[d].pc = "fill" /\ frame[d].idx > 1
    /\ frame[c].q # frame[d].q

\* C10: no entry left out of the result scores strictly higher than an entry
\* in it, and the fallback loop runs only when every entry with a positive
\* score is already in the result.
C10_NoBetterEntryLeftOut ==
  \A c \in Callers :
    /\ Returned(c) =>
         \A i \in 1..Len(TEACHINGS) :
           TEACHINGS[i] \notin Elems(frame[c].picks) =>
             \A k \in 1..Len(frame[c].picks) :
               Score(TEACHINGS[i], frame[c].q) <= Score(frame[c].picks[k], frame[c].q)
    /\ frame[c].pc = "fill" =>
         \A i \in 1..Len(TEACHINGS) :
           Score(TEACHINGS[i], frame[c].q) > 0 => TEACHINGS[i] \in Elems(frame[c].result)

\* an entry with a positive score was left out of a result of scored entries
C10_Witness ==
  \E c \in Callers :
    /\ Returned(c) /\ Len(frame[c].picks) >= 1
    /\ \E i \in 1..Len(TEACHINGS) :
         /\ TEACHINGS[i] \notin Elems(frame[c].picks)
         /\ Score(TEACHINGS[i], frame[c].q) > 0

====
